---- MODULE Spec2Model ----
(***************************************************************************)
(* The subscription intake pipeline of myidyArabic (main.go):              *)
(* handleEmailSubscription (POST /subscribe/email) running on concurrent   *)
(* request goroutines over one SQLite database and one append-only text    *)
(* file, and handleListSubscribers (GET /subscribers).                     *)
(*                                                                         *)
(* Strings are sequences of characters, so that writing "email + \n" and   *)
(* reading the result back as lines are different operations.              *)
(***************************************************************************)
EXTENDS Integers, Sequences, FiniteSets

\* Number of request goroutines that can be in flight at once.
NumWorkers == 2
\* Total number of POST/GET /subscribe/email requests in one behaviour.
MaxCalls == 2

Workers == 1..NumWorkers

NL == "\n"

\* r.FormValue("email"): the values a request can carry ("" when absent).
Emails == {<<>>, <<"a">>, <<"a", NL, "b">>}
\* r.FormValue("message")
Bodies == {<<>>, <<"h">>}
\* r.Method
Methods == {"POST", "GET"}

VARIABLES
    subscribers,  \* table subscribers: set of [id, email]
    subSeq,       \* AUTOINCREMENT counter of subscribers
    messages,     \* table messages: set of [id, subscriber_id, message]
    msgSeq,       \* AUTOINCREMENT counter of messages
    fileExists,   \* subscribers_emails.txt exists
    auditLog,     \* its bytes
    pc,           \* per request goroutine: position in handleEmailSubscription
    method,       \* r.Method
    email,        \* local email
    message,      \* local message
    id,           \* local id (Go zero value 0 until Scan fills it)
    status,       \* HTTP status written (0: none yet)
    body,         \* which response body was written
    auditResult,  \* outcome of Step 4 of this call ("none" until attempted)
    notifyResult, \* outcome of Step 5 of this call ("none" until attempted)
    auditTries,   \* number of OpenFile attempts made by this call
    notifyTries,  \* number of sendConfirmationEmail calls made by this call
    stoppedAt,    \* position at which a crash cut this call short
    calls,        \* requests received so far
    completed3,   \* per email: calls whose Step 3 INSERT succeeded
    resolved,     \* per email: ids that Step 2 returned
    listStatus,   \* GET /subscribers: status of the response in flight (0: none)
    listBody,     \* GET /subscribers: bytes of that response
    listErr       \* GET /subscribers: rows.Err() of that request is non-nil

workerVars == <<pc, method, email, message, id, status, body, auditResult,
                notifyResult, auditTries, notifyTries, stoppedAt>>
storeVars == <<subscribers, subSeq, messages, msgSeq>>
fileVars == <<fileExists, auditLog>>
ghostVars == <<calls, completed3, resolved>>
listVars == <<listStatus, listBody, listErr>>
vars == <<storeVars, fileVars, workerVars, ghostVars, listVars>>

InFlight == {"step1", "step2", "step3", "step4", "step5", "respond"}

----------------------------------------------------------------------------
(* The store: createTables and the three statements of the handler. *)

\* Rows of subscribers with the given email.
RowsFor(e) == {s \in subscribers : s.email = e}

\* INSERT OR REPLACE: the conflicting row is deleted and a new one inserted.
InsertOrReplace(e) ==
    [rows |-> (subscribers \ RowsFor(e)) \cup {[id |-> subSeq + 1, email |-> e]},
     seq |-> subSeq + 1]

\* Plain INSERT into a table whose email column is not UNIQUE.
InsertNotUnique(e) ==
    [rows |-> subscribers \cup {[id |-> subSeq + 1, email |-> e]},
     seq |-> subSeq + 1]

\* INSERT OR IGNORE INTO subscribers(email) VALUES(?): email is UNIQUE, so a
\* conflicting insert is skipped; otherwise the row gets the next id.
InsertOrIgnore(e) ==
    IF RowsFor(e) # {}
    THEN [rows |-> subscribers, seq |-> subSeq]
    ELSE [rows |-> subscribers \cup {[id |-> subSeq + 1, email |-> e]},
          seq |-> subSeq + 1]

\* INSERT OR REPLACE into a table that keeps one message per subscriber.
InsertMessageReplacing(sid, m) ==
    {x \in messages : x.subscriber_id # sid}
        \cup {[id |-> msgSeq + 1, subscriber_id |-> sid, message |-> m]}

\* INSERT INTO messages(subscriber_id, message) VALUES(?, ?): the row gets
\* the next id (created_at, which no statement reads, is left out).
InsertMessage(sid, m) ==
    messages \cup {[id |-> msgSeq + 1, subscriber_id |-> sid, message |-> m]}

----------------------------------------------------------------------------
Init ==
    /\ subscribers = {}
    /\ subSeq = 0
    /\ messages = {}
    /\ msgSeq = 0
    /\ fileExists = FALSE
    /\ auditLog = <<>>
    /\ pc = [w \in Workers |-> "idle"]
    /\ method = [w \in Workers |-> "POST"]
    /\ email = [w \in Workers |-> <<>>]
    /\ message = [w \in Workers |-> <<>>]
    /\ id = [w \in Workers |-> 0]
    /\ status = [w \in Workers |-> 0]
    /\ body = [w \in Workers |-> "none"]
    /\ auditResult = [w \in Workers |-> "none"]
    /\ notifyResult = [w \in Workers |-> "none"]
    /\ auditTries = [w \in Workers |-> 0]
    /\ notifyTries = [w \in Workers |-> 0]
    /\ stoppedAt = [w \in Workers |-> "none"]
    /\ calls = 0
    /\ completed3 = [e \in Emails |-> 0]
    /\ resolved = [e \in Emails |-> {}]
    /\ listStatus = 0
    /\ listBody = <<>>
    /\ listErr = FALSE

----------------------------------------------------------------------------
(* handleEmailSubscription *)

\* email == "" || message == ""
MissingFieldBoth(e, m) == e = <<>> /\ m = <<>>

MissingField(e, m) == e = <<>> \/ m = <<>>

\* http.Error(w, msg, code); return
Reply(w, code, msg) ==
    /\ status' = [status EXCEPT ![w] = code]
    /\ body' = [body EXCEPT ![w] = msg]
    /\ pc' = [pc EXCEPT ![w] = "done"]

\* A request arrives on goroutine w; method check and validation.
Receive(w) ==
    /\ pc[w] \in {"idle", "done"}
    /\ calls < MaxCalls
    /\ calls' = calls + 1
    /\ \E mt \in Methods :
        /\ method' = [method EXCEPT ![w] = mt]
        /\ IF mt # "POST"
           THEN /\ Reply(w, 405, "Invalid method")
                /\ email' = [email EXCEPT ![w] = <<>>]
                /\ message' = [message EXCEPT ![w] = <<>>]
           ELSE \E e \in Emails, m \in Bodies :
                /\ email' = [email EXCEPT ![w] = e]
                /\ message' = [message EXCEPT ![w] = m]
                /\ IF MissingField(e, m)
                   THEN Reply(w, 400, "Email and message are required")
                   ELSE /\ status' = [status EXCEPT ![w] = 0]
                        /\ body' = [body EXCEPT ![w] = "none"]
                        /\ pc' = [pc EXCEPT ![w] = "step1"]
    /\ id' = [id EXCEPT ![w] = 0]
    /\ auditResult' = [auditResult EXCEPT ![w] = "none"]
    /\ notifyResult' = [notifyResult EXCEPT ![w] = "none"]
    /\ auditTries' = [auditTries EXCEPT ![w] = 0]
    /\ notifyTries' = [notifyTries EXCEPT ![w] = 0]
    /\ stoppedAt' = [stoppedAt EXCEPT ![w] = "none"]
    /\ UNCHANGED <<storeVars, fileVars, completed3, resolved, listVars>>

\* Step 1 failed: 500 and return.
SaveEmailError(w) == Reply(w, 500, "Could not save email")

\* Step 1: INSERT OR IGNORE
Step1(w) ==
    /\ pc[w] = "step1"
    /\ \/ /\ SaveEmailError(w)
          /\ UNCHANGED <<subscribers, subSeq>>
       \/ /\ subscribers' = InsertOrIgnore(email[w]).rows
          /\ subSeq' = InsertOrIgnore(email[w]).seq
          /\ pc' = [pc EXCEPT ![w] = "step2"]
          /\ UNCHANGED <<status, body>>
    /\ UNCHANGED <<messages, msgSeq, fileVars, method, email, message, id,
                   auditResult, notifyResult, auditTries, notifyTries,
                   stoppedAt, ghostVars, listVars>>

\* SELECT id FROM subscribers WHERE email = ?
FindSubscriberId(e) == {s.id : s \in RowsFor(e)}

\* The error of Step 2 is dropped: the handler goes on with id as it is.
FetchIdErrorIgnored(w) ==
    /\ pc' = [pc EXCEPT ![w] = "step3"]
    /\ UNCHANGED <<status, body>>

\* Step 2 failed (read error, or sql.ErrNoRows): 500 and return.
FetchIdError(w) == Reply(w, 500, "Could not fetch ID")

\* Step 2: read the id back.
Step2(w) ==
    /\ pc[w] = "step2"
    /\ \/ /\ FetchIdError(w)
          /\ UNCHANGED <<id, resolved>>
       \/ /\ \E i \in FindSubscriberId(email[w]) :
                /\ id' = [id EXCEPT ![w] = i]
                /\ resolved' = [resolved EXCEPT ![email[w]] = @ \cup {i}]
          /\ pc' = [pc EXCEPT ![w] = "step3"]
          /\ UNCHANGED <<status, body>>
    /\ UNCHANGED <<storeVars, fileVars, method, email, message,
                   auditResult, notifyResult, auditTries, notifyTries,
                   stoppedAt, calls, completed3, listVars>>

\* The error of Step 3 is reported but the handler does not return.
SaveMessageErrorNoReturn(w) ==
    /\ status' = [status EXCEPT ![w] = 500]
    /\ body' = [body EXCEPT ![w] = "Could not save message"]
    /\ pc' = [pc EXCEPT ![w] = "step4"]

\* Step 3 failed: 500 and return.
SaveMessageError(w) == Reply(w, 500, "Could not save message")

\* Step 3: INSERT INTO messages
Step3(w) ==
    /\ pc[w] = "step3"
    /\ \/ /\ SaveMessageError(w)
          /\ UNCHANGED <<messages, msgSeq, completed3>>
       \/ /\ messages' = InsertMessage(id[w], message[w])
          /\ msgSeq' = msgSeq + 1
          /\ completed3' = [completed3 EXCEPT ![email[w]] = @ + 1]
          /\ pc' = [pc EXCEPT ![w] = "step4"]
          /\ UNCHANGED <<status, body>>
    /\ UNCHANGED <<subscribers, subSeq, fileVars, method, email, message, id,
                   auditResult, notifyResult, auditTries, notifyTries,
                   stoppedAt, calls, resolved, listVars>>

\* A failed append ends the request with 500.
AuditFailedFatal(w, kind) ==
    /\ auditResult' = [auditResult EXCEPT ![w] = kind]
    /\ Reply(w, 500, "Could not write file")

\* Step 4 failed: err != nil skips the write, WriteString's error is dropped.
AuditFailed(w, kind) ==
    /\ auditResult' = [auditResult EXCEPT ![w] = kind]
    /\ pc' = [pc EXCEPT ![w] = "step5"]
    /\ UNCHANGED <<status, body>>

\* Step 4: os.OpenFile(O_APPEND|O_CREATE|O_WRONLY); f.WriteString(email + "\n")
\* The open can fail (nothing happens), the write can fail after the open
\* created the file (nothing is appended), or the line is appended whole.
Step4(w) ==
    /\ pc[w] = "step4"
    /\ auditTries' = [auditTries EXCEPT ![w] = @ + 1]
    /\ \/ /\ AuditFailed(w, "openfail")
          /\ UNCHANGED fileVars
       \/ /\ AuditFailed(w, "writefail")
          /\ fileExists' = TRUE
          /\ UNCHANGED auditLog
       \/ /\ fileExists' = TRUE
          /\ auditLog' = auditLog \o email[w] \o <<NL>>
          /\ auditResult' = [auditResult EXCEPT ![w] = "ok"]
          /\ pc' = [pc EXCEPT ![w] = "step5"]
          /\ UNCHANGED <<status, body>>
    /\ UNCHANGED <<storeVars, method, email, message, id, notifyResult,
                   notifyTries, stoppedAt, ghostVars, listVars>>

\* Step 5: sendConfirmationEmail(email, link); smtp.SendMail's error is only
\* logged, and the function returns nothing.
Step5(w) ==
    /\ pc[w] = "step5"
    /\ notifyTries' = [notifyTries EXCEPT ![w] = @ + 1]
    /\ \E r \in {"ok", "fail"} :
          notifyResult' = [notifyResult EXCEPT ![w] = r]
    /\ pc' = [pc EXCEPT ![w] = "respond"]
    /\ UNCHANGED <<storeVars, fileVars, method, email, message, id, status,
                   body, auditResult, auditTries, stoppedAt, ghostVars,
                   listVars>>

\* The acknowledgment depends on the delivery.
RespondIfDelivered(w) ==
    /\ pc[w] = "respond"
    /\ IF notifyResult[w] = "ok"
       THEN Reply(w, IF status[w] = 0 THEN 200 ELSE status[w], "Thanks")
       ELSE Reply(w, 500, "Email send failed")
    /\ UNCHANGED <<storeVars, fileVars, method, email, message, id,
                   auditResult, notifyResult, auditTries, notifyTries,
                   stoppedAt, ghostVars, listVars>>

\* fmt.Fprintf(w, "Thanks %s! Confirmation sent.", email): the first write
\* sends status 200 unless a header was already written.
Respond(w) ==
    /\ pc[w] = "respond"
    /\ Reply(w, IF status[w] = 0 THEN 200 ELSE status[w], "Thanks")
    /\ UNCHANGED <<storeVars, fileVars, method, email, message, id,
                   auditResult, notifyResult, auditTries, notifyTries,
                   stoppedAt, ghostVars, listVars>>

\* The process dies: every request in flight ends where it is, with no
\* response. The database and the file persist; on restart createTables
\* (CREATE TABLE IF NOT EXISTS) changes nothing.
Crash ==
    /\ \E w \in Workers : pc[w] \in InFlight
    /\ stoppedAt' = [w \in Workers |->
                        IF pc[w] \in InFlight THEN pc[w] ELSE stoppedAt[w]]
    /\ pc' = [w \in Workers |-> IF pc[w] \in InFlight THEN "done" ELSE pc[w]]
    /\ UNCHANGED <<storeVars, fileVars, method, email, message, id, status,
                   body, auditResult, notifyResult, auditTries, notifyTries,
                   ghostVars, listVars>>

----------------------------------------------------------------------------
(* handleListSubscribers *)

\* The orders in which SELECT email FROM subscribers can return the rows.
RowOrders ==
    {f \in [1..Cardinality(subscribers) -> subscribers] :
        \A i, j \in 1..Cardinality(subscribers) : f[i] = f[j] => i = j}

\* fmt.Fprintln(w, email) for each row scanned.
RECURSIVE Render(_)
Render(rows) ==
    IF rows = <<>> THEN <<>>
    ELSE Head(rows).email \o <<NL>> \o Render(Tail(rows))

\* GET /subscribers. db.Query may fail (500). Otherwise every row is
\* printed, unless rows.Next() stops early at an error after k rows:
\* rows.Err() is not looked at and the response stays a 200.
ListSubscribers ==
    /\ listStatus = 0
    /\ \/ /\ listStatus' = 500
          /\ listBody' = <<"Failed to fetch subscribers", NL>>
          /\ listErr' = FALSE
       \/ /\ listStatus' = 200
          /\ \E f \in RowOrders, k \in 0..Cardinality(subscribers) :
                /\ listBody' = Render(SubSeq(f, 1, k))
                /\ listErr' \in {k < Cardinality(subscribers), FALSE}
                /\ listErr' = FALSE => k = Cardinality(subscribers)
    /\ UNCHANGED <<storeVars, fileVars, workerVars, ghostVars>>

\* The response has been delivered.
ListReturn ==
    /\ listStatus # 0
    /\ listStatus' = 0
    /\ listBody' = <<>>
    /\ listErr' = FALSE
    /\ UNCHANGED <<storeVars, fileVars, workerVars, ghostVars>>

----------------------------------------------------------------------------
Next ==
    \/ \E w \in Workers : Receive(w)
    \/ \E w \in Workers : Step1(w)
    \/ \E w \in Workers : Step2(w)
    \/ \E w \in Workers : Step3(w)
    \/ \E w \in Workers : Step4(w)
    \/ \E w \in Workers : Step5(w)
    \/ \E w \in Workers : Respond(w)
    \/ Crash

Spec == Init /\ [][Next]_vars

\* The pipeline together with the listing endpoint.
NextList ==
    \/ Next
    \/ ListSubscribers
    \/ ListReturn

SpecList == Init /\ [][NextList]_vars

----------------------------------------------------------------------------
(* What a reader of the store, of a response or of the file sees. *)

\* The lines of a text: the runs of characters ended by a newline, and a
\* last run that no newline ends.
RECURSIVE SplitLines(_, _, _)
SplitLines(bytes, cur, acc) ==
    IF bytes = <<>> THEN (IF cur = <<>> THEN acc ELSE Append(acc, cur))
    ELSE IF Head(bytes) = NL
         THEN SplitLines(Tail(bytes), <<>>, Append(acc, cur))
         ELSE SplitLines(Tail(bytes), Append(cur, Head(bytes)), acc)

Lines(bytes) == SplitLines(bytes, <<>>, <<>>)

LineSet(bytes) == {Lines(bytes)[i] : i \in 1..Len(Lines(bytes))}

\* Message rows that reference subscriber id sid.
MessagesOf(sid) == {m \in messages : m.subscriber_id = sid}

\* Message rows that reference a Subscriber row of email e.
MessagesFor(e) ==
    {m \in messages : \E s \in RowsFor(e) : s.id = m.subscriber_id}

ValidEmails == Emails \ {<<>>}

\* The call on goroutine w returned (it was not cut short by a crash).
Returned(w) == pc[w] = "done" /\ stoppedAt[w] = "none"

----------------------------------------------------------------------------
(* C1 *)

\* C1: once two Submit calls for the same email have completed Step 3, the
\* store holds exactly one Subscriber row for that email and exactly two
\* Message rows referencing its id, and every Step 2 for that email resolved
\* that same id.
C1_TwoSubmitsOneSubscriber ==
    \A e \in ValidEmails :
        completed3[e] = 2 =>
            /\ Cardinality(RowsFor(e)) = 1
            /\ \A s \in RowsFor(e) :
                  /\ Cardinality(MessagesOf(s.id)) = 2
                  /\ resolved[e] = {s.id}

\* Two calls for one email ran one after the other on the same goroutine
\* (the other goroutine was never used) and both were acknowledged.
C1_Witness ==
    \E e \in ValidEmails, w \in Workers :
        /\ completed3[e] = 2
        /\ Returned(w) /\ status[w] = 200 /\ email[w] = e
        /\ \A v \in Workers \ {w} : pc[v] = "idle"

----------------------------------------------------------------------------
(* C2 *)

\* C2: in every reachable state, under every interleaving of Steps 1, 2, 3
\* of concurrent calls, there is at most one Subscriber row per email and
\* all calls for an email resolved the same id in Step 2.
C2_AtMostOneRowSameId ==
    \A e \in ValidEmails :
        /\ Cardinality(RowsFor(e)) <= 1
        /\ Cardinality(resolved[e]) <= 1

\* Two calls for the same email are in flight together, both past Step 2,
\* with the same id.
C2_Witness ==
    \E w1, w2 \in Workers :
        /\ w1 # w2
        /\ email[w1] = email[w2]
        /\ pc[w1] = "step3" /\ pc[w2] = "step3"
        /\ id[w1] = id[w2] /\ id[w1] # 0

----------------------------------------------------------------------------
(* C3 *)

\* C3: a POST with an empty email or an empty message is answered 400 at
\* once and never enters the pipeline (no store statement, no file append,
\* no notification attempt), and the step that receives a request leaves
\* the Subscriber table, the Message table and the audit log as they were.
C3_ValidationNoWrites ==
    /\ [](\A w \in Workers :
            (pc[w] # "idle" /\ method[w] = "POST"
                /\ (email[w] = <<>> \/ message[w] = <<>>)) =>
               /\ pc[w] = "done"
               /\ status[w] = 400
               /\ body[w] = "Email and message are required"
               /\ auditTries[w] = 0
               /\ notifyTries[w] = 0
               /\ auditResult[w] = "none"
               /\ notifyResult[w] = "none")
    /\ [][calls' # calls => UNCHANGED <<storeVars, fileVars>>]_vars

\* A validation failure in a state where the store already holds rows.
C3_Witness ==
    \E w \in Workers :
        /\ status[w] = 400
        /\ message[w] = <<>> /\ email[w] # <<>>
        /\ subscribers # {} /\ messages # {}

----------------------------------------------------------------------------
(* C4 *)

\* C4: a call that reports a store error (500) has ended, made no audit
\* append attempt and no notification attempt; the failing step changes
\* neither the store nor the file, and after a failure of Step 2 or 3 the
\* Subscriber row of Step 1 is still there.
C4_StoreErrorAborts ==
    /\ [](\A w \in Workers :
            status[w] = 500 =>
               /\ pc[w] = "done"
               /\ auditTries[w] = 0 /\ auditResult[w] = "none"
               /\ notifyTries[w] = 0 /\ notifyResult[w] = "none"
               /\ body[w] \in {"Could not save email", "Could not fetch ID",
                               "Could not save message"}
               /\ (body[w] # "Could not save email" =>
                      RowsFor(email[w]) # {}))
    /\ [][\A w \in Workers :
            (status[w] # 500 /\ status'[w] = 500) =>
                UNCHANGED <<storeVars, fileVars>>]_vars

\* Step 3 failed for an email that has no Message row at all: the row of
\* Step 1 is in the store without a message.
C4_Witness ==
    \E w \in Workers :
        /\ status[w] = 500
        /\ body[w] = "Could not save message"
        /\ RowsFor(email[w]) # {}
        /\ MessagesFor(email[w]) = {}

----------------------------------------------------------------------------
(* C5 *)

\* C5: when the audit append of a call fails (the file cannot be opened or
\* written), the call reports no error; the Subscriber and Message rows it
\* wrote remain; and once it returns it has made its notification attempt
\* and answered with the success acknowledgment.
C5_AuditFailureSwallowed ==
    \A w \in Workers :
        auditResult[w] \in {"openfail", "writefail"} =>
            /\ status[w] \in {0, 200}
            /\ \E s \in subscribers : s.id = id[w] /\ s.email = email[w]
            /\ \E m \in messages :
                  m.subscriber_id = id[w] /\ m.message = message[w]
            /\ Returned(w) =>
                  /\ status[w] = 200
                  /\ body[w] = "Thanks"
                  /\ notifyTries[w] = 1

\* A call whose file could not be opened was acknowledged.
C5_Witness ==
    \E w \in Workers :
        /\ auditResult[w] = "openfail"
        /\ Returned(w)
        /\ status[w] = 200
        /\ notifyTries[w] = 1

----------------------------------------------------------------------------
(* C6 *)

\* C6: the notification step changes neither the store nor the audit log,
\* whether delivery succeeds or fails, and the response that follows it is
\* the success acknowledgment (200) in both cases.
C6_NotifyFailureSwallowed ==
    [][\A w \in Workers :
          /\ (pc[w] = "step5" /\ pc'[w] = "respond") =>
                UNCHANGED <<storeVars, fileVars, status, body>>
          /\ (pc[w] = "respond" /\ pc'[w] = "done" /\ stoppedAt'[w] = "none") =>
                /\ status'[w] = 200
                /\ body'[w] = "Thanks"
                /\ UNCHANGED <<storeVars, fileVars>>]_vars

\* A call whose delivery failed was acknowledged.
C6_Witness ==
    \E w \in Workers :
        /\ notifyResult[w] = "fail"
        /\ Returned(w)
        /\ status[w] = 200
        /\ body[w] = "Thanks"

----------------------------------------------------------------------------
(* C7 *)

\* C7: in every reachable state every Message row references the id of a
\* Subscriber row in the store, and no step removes or changes a
\* Subscriber row.
C7_MessagesReferenceSubscribers ==
    /\ [](\A m \in messages : \E s \in subscribers : s.id = m.subscriber_id)
    /\ [][subscribers \subseteq subscribers']_vars

\* Messages are stored and some call has failed at Step 2.
C7_Witness ==
    /\ messages # {}
    /\ \E w \in Workers : status[w] = 500 /\ body[w] = "Could not fetch ID"

----------------------------------------------------------------------------
(* C9 *)

\* The order of the steps within a call, and one attempt of each of Steps 4
\* and 5 per call that got through Steps 1-3.
C9_StepOrder ==
    \A w \in Workers :
        /\ auditTries[w] > 0 =>
              \E m \in messages :
                  m.subscriber_id = id[w] /\ m.message = message[w]
        /\ auditTries[w] > 0 <=> auditResult[w] # "none"
        /\ notifyTries[w] > 0 <=> notifyResult[w] # "none"
        /\ notifyTries[w] > 0 => auditResult[w] # "none"
        /\ status[w] = 200 => notifyResult[w] # "none"
        /\ pc[w] \in {"step5", "respond"} => auditTries[w] = 1
        /\ pc[w] = "respond" => notifyTries[w] = 1
        /\ (Returned(w) /\ status[w] = 200) =>
              auditTries[w] = 1 /\ notifyTries[w] = 1
        /\ auditTries[w] <= 1 /\ notifyTries[w] <= 1

\* Every line of the audit log is the email of a Subscriber in the store.
C9_LogLinesAreSubscribers ==
    \A l \in LineSet(auditLog) : RowsFor(l) # {}

\* C9: within each call the steps occur in the order upsert, id read-back,
\* message insert, audit append attempt, notification attempt, response,
\* with exactly one audit attempt and one notification attempt per call
\* that completes Steps 1-3, so every line of the audit log is the email of
\* a Subscriber existing in the store.
C9_Original == C9_StepOrder /\ C9_LogLinesAreSubscribers

----------------------------------------------------------------------------
(* C10 *)

\* C10: a call that stopped after Step 1 and before Step 3 completed (store
\* error or crash) leaves exactly one Subscriber row for its email; no
\* email ever has a second row; and the number of Message rows of an email
\* always equals the number of calls for it that completed Step 3.
C10_PartialFailureConsistency ==
    /\ \A w \in Workers :
          (\/ stoppedAt[w] \in {"step2", "step3"}
           \/ body[w] \in {"Could not fetch ID", "Could not save message"}) =>
             Cardinality(RowsFor(email[w])) = 1
    /\ \A e \in ValidEmails :
          /\ Cardinality(RowsFor(e)) <= 1
          /\ Cardinality(MessagesFor(e)) = completed3[e]
          /\ Cardinality({m \in messages :
                            \E i \in resolved[e] : m.subscriber_id = i})
                = completed3[e]

\* One call for an email stopped between Step 1 and Step 3, another call
\* for the same email succeeded, and the email has one row and one message.
C10_Witness ==
    \E w1, w2 \in Workers :
        /\ w1 # w2
        /\ email[w1] = email[w2]
        /\ \/ stoppedAt[w1] \in {"step2", "step3"}
           \/ body[w1] \in {"Could not fetch ID", "Could not save message"}
        /\ Returned(w2) /\ status[w2] = 200
        /\ Cardinality(RowsFor(email[w1])) = 1
        /\ Cardinality(MessagesFor(email[w1])) = 1

----------------------------------------------------------------------------
(* C8 *)

\* C8: when no call is in flight or was cut short by a crash and every
\* Subscriber row comes from a call that completed Steps 1-3, a listing that
\* ran without a store error returns exactly as many lines as there are
\* submitted emails, the set of lines is the set of submitted emails, and
\* the listing leaves the store and the audit log unchanged.
C8_Original ==
    [][(/\ listStatus = 0
        /\ listStatus' = 200
        /\ ~listErr'
        /\ \A w \in Workers : pc[w] \notin InFlight /\ stoppedAt[w] = "none"
        /\ \A s \in subscribers : completed3[s.email] >= 1) =>
          /\ Len(Lines(listBody')) =
                Cardinality({e \in ValidEmails : completed3[e] >= 1})
          /\ LineSet(listBody') = {e \in ValidEmails : completed3[e] >= 1}
          /\ UNCHANGED <<storeVars, fileVars>>]_vars

====
